---- MODULE Spec2Model ----
(***************************************************************************)
(* Demo runners of tt-buda-demos and the harness test that calls them.     *)
(*                                                                         *)
(*   cv_demos/densenet/pytorch_densenet_121_hf_xray.py                     *)
(*       get_input_img, run_densenet_121_hf_xray_pytorch                   *)
(*   nlp_demos/flan_t5/pytorch_flan_t5_generation.py                       *)
(*       run_flan_t5_pybuda_pipeline                                       *)
(*   tests/test_pytorch_densenet.py                                        *)
(*       test_densenet_121_hf_xray_pytorch                                 *)
(*                                                                         *)
(* One Python process executes the runners one after the other.  os.environ*)
(* and pybuda's global compiler configuration are process globals; every   *)
(* other name is a local of the running function.  The compiler/runtime,   *)
(* the model hub and the image host are external: what they return is drawn*)
(* nondeterministically from the outcomes their contract allows.           *)
(***************************************************************************)
EXTENDS Naturals, Sequences, FiniteSets

\* ------------------------------------------------------------------ bounds
MaxBatch == 3       \* batch sizes 0..MaxBatch are requested
MaxDevices == 2     \* detect_available_devices() returns at most this many devices
MaxHolders == 2     \* cap of the count of tests holding the accelerator

\* --------------------------------------------------------------- constants
Unset == "<unset>"  \* a key absent from os.environ

FlanEnvFlags ==
    { "PYBUDA_DISABLE_STREAM_OUTPUT", "PYBUDA_PAD_OUTPUT_BUFFER",
      "TT_BACKEND_MULTI_THREADED_PUSH", "PYBUDA_DISABLE_DYNAMIC_DRAM",
      "PYBUDA_FORCE_SEQUENTIAL", "PYBUDA_NLP_MANUAL_TARGET",
      "TT_BACKEND_DRAM_POLLING_FREQUENCY" }

XrayEnvFlags == { "PYBUDA_DISABLE_CONSTANT_FOLDING", "PYBUDA_PAD_SPARSE_MM" }

\* PYBUDA_N300_DATA_PARALLEL is only read by the demo; the user's shell sets it.
EnvFlags == FlanEnvFlags \cup XrayEnvFlags \cup { "PYBUDA_N300_DATA_PARALLEL" }

DataParallelValues == { Unset, "0", "1", "true" }

\* BackendDevice members a machine can report.
BackendDevice == { "Grayskull", "Wormhole_B0" }

DeviceSeqs == UNION { [1..n -> BackendDevice] : n \in 0..MaxDevices }

Batches == 0..MaxBatch

\* xrv.datasets.default_pathologies, the label list zipped with the output.
default_pathologies ==
    << "Atelectasis", "Consolidation", "Infiltration", "Pneumothorax", "Edema",
       "Emphysema", "Fibrosis", "Effusion", "Pneumonia", "Pleural_Thickening",
       "Cardiomegaly", "Nodule", "Mass", "Hernia", "Lung Lesion", "Fracture",
       "Lung Opacity", "Enlarged Cardiomediastinum" >>

NumPathologies == Len(default_pathologies)

\* Ranks of the array xrv.datasets.normalize returns: 2 for a greyscale image,
\* 3 for a colour image, 1 for the degenerate case the demo prints an error for.
ImgRanks == { 1, 2, 3 }

Min(a, b) == IF a <= b THEN a ELSE b

\* ----------------------------------------------------------------- tensors
\* A tensor is its shape and, along dimension 0, the samples it holds.
NoTensor == [dims |-> << >>, rows |-> << >>]

Tensor(rows, rest) == [dims |-> << Len(rows) >> \o rest, rows |-> rows]

RECURSIVE ConcatRows(_)
ConcatRows(ts) ==
    IF ts = << >> THEN << >> ELSE Head(ts).rows \o ConcatRows(Tail(ts))

\* torch.cat(ts, dim=0) of a non-empty list of tensors of equal trailing shape.
TorchCat(ts) == Tensor(ConcatRows(ts), Tail(Head(ts).dims))

\* Variant: the sample is not replicated.
Replicate_Once(x, n) == [i \in 1..Min(n, 1) |-> x]

\* Python's [x] * n
Replicate(x, n) == [i \in 1..n |-> x]

\* Python's zip(keys, values) collected into a dict: it stops at the shorter one.
ZipDict(keys, values) ==
    LET n == Min(Len(keys), Len(values))
    IN  [k \in { keys[i] : i \in 1..n } |->
            values[CHOOSE i \in 1..n : keys[i] = k]]

VARIABLES
    env,                \* os.environ, restricted to EnvFlags
    compiler_cfg,       \* pybuda.config._get_global_compiler_config()
    writes,             \* the configuration assignments of this invocation, in order
    pc,                 \* position of the process
    demo,               \* the runner being executed
    batch_size,         \* its batch_size argument
    available_devices,  \* local of the DenseNet runner
    img_rank,           \* get_input_img: rank of the normalized array, 0 before it
    batch_tensor,       \* local of the DenseNet runner
    prefix_text,        \* local of the FLAN-T5 runner
    text2text_generator,\* local of the FLAN-T5 runner: the pipeline's batch_size
    submitted,          \* the input handed to compile+run
    runtime_output,     \* what output_q.get() returned
    output,             \* local of the DenseNet runner after the data-parallel step
    preds,              \* local of the DenseNet runner
    answer,             \* local of the FLAN-T5 runner
    stdout,             \* what the running invocation has printed, in order
    error,              \* the exception in flight, "none" if there is none
    calls,              \* external network and device calls of this invocation
    outcome,            \* what the caller of the last invocation observed
    in_test,            \* the invocation was made by the harness test
    device_holders,     \* number of tests holding the accelerator
    accel_state         \* state of the accelerator: "clean" or "dirty"

globals == << env, compiler_cfg >>
config == << env, compiler_cfg, writes >>
locals == << available_devices, img_rank, batch_tensor, prefix_text, text2text_generator,
             submitted, runtime_output, output, preds, answer >>
harness == << in_test, device_holders, accel_state >>
vars == << env, compiler_cfg, writes, pc, demo, batch_size, available_devices,
           img_rank, batch_tensor, prefix_text, text2text_generator, submitted,
           runtime_output, output, preds, answer, stdout, error, calls,
           outcome, in_test, device_holders, accel_state >>

NetworkCalls == { "fetch_image", "fetch_xrv_model", "fetch_t5_config",
                  "fetch_t5_model", "fetch_t5_tokenizer" }
DeviceCalls == { "detect_available_devices", "run_inference", "output_q.get",
                 "pybuda_pipeline", "text2text_generator" }

\* The compiler configuration as pybuda constructs it, before any demo ran.
DefaultCompilerCfg ==
    [ enable_tm_cpu_fallback   |-> "default",
      enable_tvm_constant_prop |-> "default",
      cpu_fallback_ops         |-> {},
      balancer_policy          |-> "default",
      default_df_override      |-> "default",
      enable_tvm_cpu_fallback  |-> "default",
      default_dram_parameters  |-> "default",
      input_queues_on_host     |-> "default",
      amp_light                |-> "default" ]

Init ==
    /\ env \in { [k \in EnvFlags |->
                    IF k = "PYBUDA_N300_DATA_PARALLEL" THEN v ELSE Unset]
                 : v \in DataParallelValues }
    /\ compiler_cfg = DefaultCompilerCfg
    /\ writes = << >>
    /\ pc = "idle"
    /\ demo = "none"
    /\ batch_size = 0
    /\ available_devices = << >>
    /\ img_rank = 0
    /\ batch_tensor = NoTensor
    /\ prefix_text = << >>
    /\ text2text_generator = [batch_size |-> 0]
    /\ submitted = << >>
    /\ runtime_output = << >>
    /\ output = << >>
    /\ preds = << >>
    /\ answer = << >>
    /\ stdout = << >>
    /\ error = "none"
    /\ calls = {}
    /\ outcome = "none"
    /\ in_test = FALSE
    /\ device_holders = 0
    /\ accel_state = "clean"

\* ------------------------------------------------- DenseNet X-ray: pieces
\* The process globals a runner configures, with the log of its assignments.
Globals(cfg, e, w) == [cfg |-> cfg, env |-> e, writes |-> w]

\* Lines 51-56: the options set whatever the device.
XrayBase(g) ==
    [cfg |-> [g.cfg EXCEPT !.enable_tm_cpu_fallback = "True",
                           !.enable_tvm_constant_prop = "True",
                           !.cpu_fallback_ops = @ \cup { "adv_index" }],
     env |-> [g.env EXCEPT !["PYBUDA_DISABLE_CONSTANT_FOLDING"] = "1"],
     writes |-> g.writes \o << "enable_tm_cpu_fallback", "enable_tvm_constant_prop",
                               "cpu_fallback_ops",
                               "PYBUDA_DISABLE_CONSTANT_FOLDING" >>]

\* The two device presets of lines 61-62 and 64-65.
RibbonPreset(g) ==
    [cfg |-> [g.cfg EXCEPT !.balancer_policy = "Ribbon",
                           !.default_df_override = "Float16_b"],
     env |-> g.env,
     writes |-> g.writes \o << "balancer_policy", "default_df_override" >>]

CNNPreset(g) ==
    [cfg |-> [g.cfg EXCEPT !.balancer_policy = "CNN"],
     env |-> [g.env EXCEPT !["PYBUDA_PAD_SPARSE_MM"] = "{25:32}"],
     writes |-> g.writes \o << "balancer_policy", "PYBUDA_PAD_SPARSE_MM" >>]

\* Variant: the emptiness test of line 59 is folded into the comparison, so an
\* empty device list takes the else branch.
XrayPreset_NoGuard(g, devs) ==
    IF devs # << >> /\ devs[1] = "Wormhole_B0"
    THEN RibbonPreset(g)
    ELSE CNNPreset(g)

\* Variant: the preset is chosen by the last device of the sequence.
XrayPreset_LastDevice(g, devs) ==
    IF devs # << >>
    THEN IF devs[Len(devs)] = "Wormhole_B0"
         THEN RibbonPreset(g)
         ELSE CNNPreset(g)
    ELSE g

\* Lines 59-65: the device-specific configuration.
XrayPreset(g, devs) ==
    IF devs # << >>
    THEN IF devs[1] = "Wormhole_B0"
         THEN RibbonPreset(g)
         ELSE CNNPreset(g)
    ELSE g

\* Variant: a rank below 2 is printed and the image is padded to rank 2, so
\* the function returns a tensor.
get_input_img_Recover(rank) ==
    [error |-> "none",
     log |-> IF (IF rank > 2 THEN rank - 1 ELSE rank) < 2
             THEN << << "log", "error, dimension lower than 2 for image" >> >>
             ELSE << >>,
     tensor |-> Tensor(<< "xray_img" >>, << 1, 224, 224 >>)]

\* get_input_img, given the rank of the normalized array.  img[:, :, 0] drops
\* one axis of an array of rank above 2; a rank below 2 is printed and then
\* img[None, :, :] raises IndexError (two slices on a 1-D array); otherwise the
\* crop/resize gives [1, 224, 224] and unsqueeze(0) gives [1, 1, 224, 224].
get_input_img(rank) ==
    LET r == IF rank > 2 THEN rank - 1 ELSE rank
        log == IF r < 2
               THEN << << "log", "error, dimension lower than 2 for image" >> >>
               ELSE << >>
    IN  IF r < 2
        THEN [error |-> "IndexError", log |-> log, tensor |-> NoTensor]
        ELSE [error |-> "none", log |-> log,
              tensor |-> Tensor(<< "xray_img" >>, << 1, 224, 224 >>)]

\* What output_q.get() may return for an input of B samples: one tensor of
\* shape [B, 18], or (data parallel) two tensors that split the B rows in
\* order.  Row i stands for the 18 scores of sample i.
RuntimeOutputs(B) ==
    LET T(lo, hi) == Tensor([i \in 1..(hi - lo + 1) |-> lo + i - 1],
                            << NumPathologies >>)
    IN  { << T(1, B) >> } \cup { << T(1, k), T(k + 1, B) >> : k \in 0..B }

\* os.environ.get(key, default)
EnvGet(e, key, default) == IF e[key] = Unset THEN default ELSE e[key]

\* Variant: the two halves are concatenated in the other order.
CombineOutputs_Reversed(out, flag) ==
    IF flag = "1" THEN << TorchCat(<< out[2], out[1] >>) >> ELSE out

\* Lines 82-85.
CombineOutputs(out, flag) ==
    IF flag = "1" THEN << TorchCat(<< out[1], out[2] >>) >> ELSE out

\* Line 88: the labels zipped with the iteration of output[0] along dimension 0.
Postprocess(out) == ZipDict(default_pathologies, out[1].rows)

\* --------------------------------------------------------- FLAN-T5: pieces
\* Lines 16-28.
FlanConfig(g) ==
    [cfg |-> [g.cfg EXCEPT !.enable_tvm_cpu_fallback = "False",
                           !.default_df_override = "Float16_b",
                           !.default_dram_parameters = "False",
                           !.input_queues_on_host = "True",
                           !.amp_light = "enabled"],
     env |-> [k \in EnvFlags |->
                CASE k \in { "PYBUDA_DISABLE_STREAM_OUTPUT",
                             "PYBUDA_PAD_OUTPUT_BUFFER",
                             "TT_BACKEND_MULTI_THREADED_PUSH",
                             "PYBUDA_DISABLE_DYNAMIC_DRAM",
                             "PYBUDA_FORCE_SEQUENTIAL" } -> "1"
                  [] k = "PYBUDA_NLP_MANUAL_TARGET" -> "30000"
                  [] k = "TT_BACKEND_DRAM_POLLING_FREQUENCY" -> "64"
                  [] OTHER -> g.env[k]],
     writes |-> g.writes \o
                << "PYBUDA_DISABLE_STREAM_OUTPUT", "PYBUDA_PAD_OUTPUT_BUFFER",
                   "TT_BACKEND_MULTI_THREADED_PUSH", "PYBUDA_DISABLE_DYNAMIC_DRAM",
                   "PYBUDA_FORCE_SEQUENTIAL", "PYBUDA_NLP_MANUAL_TARGET",
                   "TT_BACKEND_DRAM_POLLING_FREQUENCY", "enable_tvm_cpu_fallback",
                   "default_df_override", "default_dram_parameters",
                   "input_queues_on_host", "amp_light" >>]

Prompt == "A step by step recipe to make bolognese pasta:"

T5Fetches == << "fetch_t5_config", "fetch_t5_model", "fetch_t5_tokenizer" >>

\* ----------------------------------------------------------- control flow
\* An exception leaves the function: nothing in either runner catches it.
Raise(e) ==
    /\ pc' = "failed"
    /\ error' = e

\* Entry of a runner: its locals are fresh.
Enter(d, B) ==
    /\ pc' = IF d = "xray" THEN "x_configure" ELSE "f_configure"
    /\ demo' = d
    /\ batch_size' = B
    /\ available_devices' = << >>
    /\ img_rank' = 0
    /\ batch_tensor' = NoTensor
    /\ prefix_text' = << >>
    /\ text2text_generator' = [batch_size |-> 0]
    /\ submitted' = << >>
    /\ runtime_output' = << >>
    /\ output' = << >>
    /\ preds' = << >>
    /\ answer' = << >>
    /\ stdout' = << >>
    /\ error' = "none"
    /\ calls' = {}
    /\ writes' = << >>
    /\ outcome' = "running"

\* ------------------------------------------- run_densenet_121_hf_xray_pytorch
\* Lines 48-65.
Xray_Configure ==
    /\ pc = "x_configure"
    /\ \E devs \in DeviceSeqs :
        LET g == XrayPreset(XrayBase(Globals(compiler_cfg, env, writes)), devs)
        IN  /\ available_devices' = devs
            /\ compiler_cfg' = g.cfg
            /\ env' = g.env
            /\ writes' = g.writes
    /\ calls' = calls \cup { "detect_available_devices" }
    /\ pc' = "x_load_input"
    /\ UNCHANGED << demo, batch_size, img_rank, batch_tensor, prefix_text,
                    text2text_generator, submitted, runtime_output, output,
                    preds, answer, stdout, error, outcome, harness >>

\* Lines 67-70.
Xray_LoadInput ==
    /\ pc = "x_load_input"
    /\ calls' = calls \cup { "fetch_image" }
    /\ \/ /\ Raise("NetworkFetchError")
          /\ UNCHANGED << img_rank, batch_tensor, stdout >>
       \/ \E rank \in ImgRanks :
            LET r == get_input_img(rank)
            IN  /\ img_rank' = rank
                /\ stdout' = stdout \o r.log
                /\ IF r.error # "none"
                   THEN Raise(r.error) /\ UNCHANGED batch_tensor
                   ELSE IF batch_size = 0
                   THEN Raise("RuntimeError") /\ UNCHANGED batch_tensor
                   ELSE /\ batch_tensor' = TorchCat(Replicate(r.tensor, batch_size))
                        /\ pc' = "x_load_model"
                        /\ UNCHANGED error
    /\ UNCHANGED << config, demo, batch_size, available_devices, prefix_text,
                    text2text_generator, submitted, runtime_output, output,
                    preds, answer, outcome, harness >>

\* Lines 72-75.
Xray_LoadModel ==
    /\ pc = "x_load_model"
    /\ calls' = calls \cup { "fetch_xrv_model" }
    /\ \/ Raise("NetworkFetchError")
       \/ pc' = "x_submit" /\ UNCHANGED error
    /\ UNCHANGED << config, demo, batch_size, locals, stdout, outcome, harness >>

\* Variant: the device preset is assigned after run_inference.
Xray_Submit_ThenPreset ==
    /\ pc = "x_submit"
    /\ calls' = calls \cup { "run_inference" }
    /\ accel_state' = "dirty"
    /\ submitted' = << batch_tensor >>
    /\ LET g == XrayPreset(Globals(compiler_cfg, env, writes), available_devices)
       IN  /\ compiler_cfg' = g.cfg
           /\ env' = g.env
           /\ writes' = g.writes
    /\ pc' = "x_get"
    /\ UNCHANGED << demo, batch_size, available_devices, img_rank,
                    batch_tensor, prefix_text, text2text_generator,
                    runtime_output, output, preds, answer, stdout, error,
                    outcome, in_test, device_holders >>

\* Line 78.
Xray_Submit ==
    /\ pc = "x_submit"
    /\ calls' = calls \cup { "run_inference" }
    /\ accel_state' = "dirty"
    /\ \/ Raise("RuntimeFault") /\ UNCHANGED submitted
       \/ /\ submitted' = << batch_tensor >>
          /\ pc' = "x_get"
          /\ UNCHANGED error
    /\ UNCHANGED << config, demo, batch_size, available_devices, img_rank, batch_tensor,
                    prefix_text, text2text_generator, runtime_output, output,
                    preds, answer, stdout, outcome, in_test, device_holders >>

\* Line 79.
Xray_Get ==
    /\ pc = "x_get"
    /\ calls' = calls \cup { "output_q.get" }
    /\ \/ Raise("RuntimeFault") /\ UNCHANGED runtime_output
       \/ /\ runtime_output' \in RuntimeOutputs(Len(submitted[1].rows))
          /\ pc' = "x_post"
          /\ UNCHANGED error
    /\ UNCHANGED << config, demo, batch_size, available_devices, img_rank, batch_tensor,
                    prefix_text, text2text_generator, submitted, output, preds,
                    answer, stdout, outcome, harness >>

\* Lines 81-91.
Xray_Postprocess ==
    /\ pc = "x_post"
    /\ LET flag == EnvGet(env, "PYBUDA_N300_DATA_PARALLEL", "0")
       IN  IF flag = "1" /\ Len(runtime_output) < 2
           THEN Raise("IndexError") /\ UNCHANGED << output, preds, stdout >>
           ELSE /\ output' = CombineOutputs(runtime_output, flag)
                /\ preds' = Postprocess(output')
                /\ stdout' = Append(stdout, << "preds", preds' >>)
                /\ pc' = "done"
                /\ UNCHANGED error
    /\ UNCHANGED << config, demo, batch_size, available_devices, img_rank, batch_tensor,
                    prefix_text, text2text_generator, submitted, runtime_output,
                    answer, calls, outcome, harness >>

\* ------------------------------------------------ run_flan_t5_pybuda_pipeline
\* Lines 15-28.
Flan_Configure ==
    /\ pc = "f_configure"
    /\ LET g == FlanConfig(Globals(compiler_cfg, env, writes))
       IN  /\ compiler_cfg' = g.cfg
           /\ env' = g.env
           /\ writes' = g.writes
    /\ pc' = "f_load_model"
    /\ UNCHANGED << demo, batch_size, locals, stdout, error, calls, outcome,
                    harness >>

\* Lines 30-43: three hub fetches in order; the first to fail ends the run.
Flan_LoadModel ==
    /\ pc = "f_load_model"
    /\ \/ \E n \in 1..Len(T5Fetches) :
            /\ calls' = calls \cup { T5Fetches[i] : i \in 1..n }
            /\ Raise("NetworkFetchError")
       \/ /\ calls' = calls \cup { T5Fetches[i] : i \in 1..Len(T5Fetches) }
          /\ pc' = "f_pipeline"
          /\ UNCHANGED error
    /\ UNCHANGED << config, demo, batch_size, locals, stdout, outcome, harness >>

\* Lines 45-55.
Flan_BuildPipeline ==
    /\ pc = "f_pipeline"
    /\ prefix_text' = Replicate(Prompt, batch_size)
    /\ calls' = calls \cup { "pybuda_pipeline" }
    /\ \/ Raise("RuntimeFault") /\ UNCHANGED text2text_generator
       \/ /\ text2text_generator' = [batch_size |-> batch_size]
          /\ pc' = "f_generate"
          /\ UNCHANGED error
    /\ UNCHANGED << config, demo, batch_size, available_devices, img_rank, batch_tensor,
                    submitted, runtime_output, output, preds, answer, stdout,
                    outcome, harness >>

\* Lines 57-64: the pipeline returns one result per prompt, or fails.
Flan_Generate ==
    /\ pc = "f_generate"
    /\ calls' = calls \cup { "text2text_generator" }
    /\ accel_state' = "dirty"
    /\ submitted' = prefix_text
    /\ \/ Raise("RuntimeFault") /\ UNCHANGED answer
       \/ /\ answer' = Replicate([generated_text |-> "generated"], Len(prefix_text))
          /\ pc' = "f_report"
          /\ UNCHANGED error
    /\ UNCHANGED << config, demo, batch_size, available_devices, img_rank, batch_tensor,
                    prefix_text, text2text_generator, runtime_output, output,
                    preds, stdout, outcome, in_test, device_holders >>

\* Lines 66-70.
Flan_Report ==
    /\ pc = "f_report"
    /\ stdout' = stdout \o [i \in 1..batch_size |->
                    << "sample", i - 1, prefix_text[i], answer[i].generated_text >>]
    /\ pc' = "done"
    /\ UNCHANGED << config, demo, batch_size, locals, error, calls, outcome,
                    harness >>

\* ------------------------------------------------------------------ callers
\* The clear_pybuda fixture around one test: the device is acquired and
\* cleared before the test body, released and reset after it.
clear_pybuda_setup ==
    /\ device_holders' = device_holders + 1
    /\ accel_state' = "clean"

clear_pybuda_teardown ==
    /\ device_holders' = device_holders - 1
    /\ accel_state' = "clean"

\* Variant: the test does not request the clear_pybuda fixture.
test_densenet_121_hf_xray_pytorch_NoFixture ==
    /\ pc = "idle"
    /\ in_test' = TRUE
    /\ \E B \in Batches : Enter("xray", B)
    /\ UNCHANGED << globals, device_holders, accel_state >>

\* test_densenet_121_hf_xray_pytorch(clear_pybuda, test_device, batch_size):
\* the fixture's setup, then the call of the runner.
test_densenet_121_hf_xray_pytorch ==
    /\ pc = "idle"
    /\ device_holders < MaxHolders
    /\ clear_pybuda_setup
    /\ in_test' = TRUE
    /\ \E B \in Batches : Enter("xray", B)
    /\ UNCHANGED globals

\* The test body returns or raises; the fixture's teardown runs either way.
test_exit ==
    /\ pc \in { "done", "failed" }
    /\ in_test
    /\ clear_pybuda_teardown
    /\ pc' = "idle"
    /\ outcome' = IF error = "none" THEN "passed" ELSE error
    /\ UNCHANGED << config, demo, batch_size, locals, stdout, error, calls,
                    in_test >>

\* Variant: the run configuration is constructed fresh at every call.
Call_FreshConfig ==
    /\ pc = "idle"
    /\ in_test' = FALSE
    /\ \E d \in { "xray", "flan" }, B \in Batches : Enter(d, B)
    /\ env' = [k \in EnvFlags |->
                 IF k = "PYBUDA_N300_DATA_PARALLEL" THEN env[k] ELSE Unset]
    /\ compiler_cfg' = DefaultCompilerCfg
    /\ UNCHANGED << device_holders, accel_state >>

\* Any other caller of a runner (the script's __main__, another module).
Call ==
    /\ pc = "idle"
    /\ in_test' = FALSE
    /\ \E d \in { "xray", "flan" }, B \in Batches : Enter(d, B)
    /\ UNCHANGED << globals, device_holders, accel_state >>

\* The runner returns None or the exception reaches the caller.
Return ==
    /\ pc \in { "done", "failed" }
    /\ ~in_test
    /\ pc' = "idle"
    /\ outcome' = IF error = "none" THEN "returned" ELSE error
    /\ UNCHANGED << config, demo, batch_size, locals, stdout, error, calls,
                    harness >>

Next ==
    \/ Call
    \/ Return
    \/ test_densenet_121_hf_xray_pytorch
    \/ test_exit
    \/ Xray_Configure
    \/ Xray_LoadInput
    \/ Xray_LoadModel
    \/ Xray_Submit
    \/ Xray_Get
    \/ Xray_Postprocess
    \/ Flan_Configure
    \/ Flan_LoadModel
    \/ Flan_BuildPipeline
    \/ Flan_Generate
    \/ Flan_Report

Spec == Init /\ [][Next]_vars

\* ================================================================== claims
ConfigurePcs == { "x_configure", "f_configure" }
SubmitCalls == { "run_inference", "pybuda_pipeline", "text2text_generator" }
Assigns == Len(writes') > Len(writes)
ResultPrinted == \E i \in 1..Len(stdout) : stdout[i][1] \in { "preds", "sample" }
LowRankLogged ==
    \E i \in 1..Len(stdout) :
        /\ stdout[i][1] = "log"
        /\ stdout[i][2] = "error, dimension lower than 2 for image"

\* C1 (as stated): for every batch size B >= 1 the DenseNet X-ray runner
\* prints a result mapping with one entry per pathology label, 18 entries,
\* whatever B is.
C1_OneEntryPerPathology ==
    (demo = "xray" /\ pc = "done" /\ batch_size >= 1)
        => /\ Len(stdout) >= 1
           /\ stdout[Len(stdout)][1] = "preds"
           /\ Cardinality(DOMAIN stdout[Len(stdout)][2]) = NumPathologies

\* C2 (as stated): a runner called with batch_size = 0 fails with a
\* validation error before any network fetch and before any device call.
C2_BatchZeroFailsFast ==
    (demo # "none" /\ batch_size = 0)
        => /\ calls \cap (NetworkCalls \cup DeviceCalls) = {}
           /\ (pc \in { "done", "failed", "idle" } => error = "ValidationError")

\* C3 (as stated): the configuration in effect at compile/run depends only on
\* this invocation's parameters and detected device: it is the configuration
\* a fresh process would have after this invocation's own assignments.
FreshGlobals ==
    Globals(DefaultCompilerCfg,
            [k \in EnvFlags |->
                IF k = "PYBUDA_N300_DATA_PARALLEL" THEN env[k] ELSE Unset],
            << >>)

C3_ConfigFreshPerInvocation ==
    /\ (demo = "xray" /\ pc = "x_submit")
          => LET g == XrayPreset(XrayBase(FreshGlobals), available_devices)
             IN  env = g.env /\ compiler_cfg = g.cfg
    /\ (demo = "flan" /\ pc = "f_pipeline")
          => LET g == FlanConfig(FreshGlobals)
             IN  env = g.env /\ compiler_cfg = g.cfg

\* C3 (amended): the configuration is process-global and persists.  Once an
\* invocation has configured, every option it assigns holds the value it
\* assigned (fixed by the demo and the first detected device); an option
\* changes only in a configure step of an invocation that assigns it, so every
\* other option keeps the value earlier invocations left, across calls and
\* returns.
XrayAssigned ==
    /\ compiler_cfg.enable_tm_cpu_fallback = "True"
    /\ compiler_cfg.enable_tvm_constant_prop = "True"
    /\ "adv_index" \in compiler_cfg.cpu_fallback_ops
    /\ env["PYBUDA_DISABLE_CONSTANT_FOLDING"] = "1"
    /\ available_devices # << >> =>
          IF available_devices[1] = "Wormhole_B0"
          THEN /\ compiler_cfg.balancer_policy = "Ribbon"
               /\ compiler_cfg.default_df_override = "Float16_b"
          ELSE /\ compiler_cfg.balancer_policy = "CNN"
               /\ env["PYBUDA_PAD_SPARSE_MM"] = "{25:32}"

FlanAssigned ==
    /\ \A k \in { "PYBUDA_DISABLE_STREAM_OUTPUT", "PYBUDA_PAD_OUTPUT_BUFFER",
                  "TT_BACKEND_MULTI_THREADED_PUSH", "PYBUDA_DISABLE_DYNAMIC_DRAM",
                  "PYBUDA_FORCE_SEQUENTIAL" } : env[k] = "1"
    /\ env["PYBUDA_NLP_MANUAL_TARGET"] = "30000"
    /\ env["TT_BACKEND_DRAM_POLLING_FREQUENCY"] = "64"
    /\ compiler_cfg.enable_tvm_cpu_fallback = "False"
    /\ compiler_cfg.default_df_override = "Float16_b"
    /\ compiler_cfg.default_dram_parameters = "False"
    /\ compiler_cfg.input_queues_on_host = "True"
    /\ compiler_cfg.amp_light = "enabled"

AssignedBy(d, devs) ==
    IF d = "flan"
    THEN FlanEnvFlags \cup { "enable_tvm_cpu_fallback", "default_df_override",
                             "default_dram_parameters", "input_queues_on_host",
                             "amp_light" }
    ELSE { "enable_tm_cpu_fallback", "enable_tvm_constant_prop",
           "cpu_fallback_ops", "PYBUDA_DISABLE_CONSTANT_FOLDING" }
         \cup (IF devs = << >> THEN {}
               ELSE IF devs[1] = "Wormhole_B0"
               THEN { "balancer_policy", "default_df_override" }
               ELSE { "balancer_policy", "PYBUDA_PAD_SPARSE_MM" })

ChangedOptions ==
    { k \in EnvFlags : env'[k] # env[k] }
        \cup { f \in DOMAIN compiler_cfg : compiler_cfg'[f] # compiler_cfg[f] }

C3_ConfigPersists ==
    /\ []((demo = "xray" /\ pc \notin ConfigurePcs) => XrayAssigned)
    /\ []((demo = "flan" /\ pc \notin ConfigurePcs) => FlanAssigned)
    /\ [][ChangedOptions # {} =>
            /\ pc \in ConfigurePcs
            /\ ChangedOptions \subseteq AssignedBy(demo, available_devices')]_vars

\* C3 witness: the DenseNet runner is about to submit while a flag that only
\* the FLAN-T5 runner assigns is still set from an earlier invocation.
C3_Witness ==
    /\ demo = "xray"
    /\ pc = "x_submit"
    /\ env["PYBUDA_FORCE_SEQUENTIAL"] = "1"
    /\ compiler_cfg.amp_light = "enabled"

\* C4: in every invocation every configuration assignment, and so every change
\* of os.environ or of the compiler configuration, happens before the
\* compile+run submission (run_inference; the pipeline construction and call):
\* none happens once a submission call was made.
C4_ConfigBeforeSubmit ==
    [][(Assigns \/ globals' # globals) =>
          /\ pc \in ConfigurePcs
          /\ Assigns
          /\ calls \cap SubmitCalls = {}
          /\ calls' \cap SubmitCalls = {}]_vars

\* C4 witness: a submission was made with the invocation's assignments logged.
C4_Witness ==
    /\ pc = "x_get"
    /\ "run_inference" \in calls
    /\ Len(writes) = 6
    /\ submitted # << >>

\* C5: with no device detected the DenseNet configuration step raises nothing
\* and applies neither preset: balancer_policy, default_df_override and
\* PYBUDA_PAD_SPARSE_MM stay as they were and are not assigned, the options set
\* unconditionally are in effect, and the run goes on to load its input.
C5_NoDeviceNoPreset ==
    [][(pc = "x_configure" /\ pc' # pc /\ available_devices' = << >>) =>
          /\ compiler_cfg'.balancer_policy = compiler_cfg.balancer_policy
          /\ compiler_cfg'.default_df_override = compiler_cfg.default_df_override
          /\ env'["PYBUDA_PAD_SPARSE_MM"] = env["PYBUDA_PAD_SPARSE_MM"]
          /\ writes' = << "enable_tm_cpu_fallback", "enable_tvm_constant_prop",
                          "cpu_fallback_ops", "PYBUDA_DISABLE_CONSTANT_FOLDING" >>
          /\ compiler_cfg'.enable_tm_cpu_fallback = "True"
          /\ compiler_cfg'.enable_tvm_constant_prop = "True"
          /\ "adv_index" \in compiler_cfg'.cpu_fallback_ops
          /\ env'["PYBUDA_DISABLE_CONSTANT_FOLDING"] = "1"
          /\ error' = "none"
          /\ pc' = "x_load_input"]_vars

\* C5 witness: a run that detected no device completed compile+run and printed.
C5_Witness ==
    /\ demo = "xray"
    /\ pc = "done"
    /\ available_devices = << >>
    /\ "detect_available_devices" \in calls
    /\ "run_inference" \in calls
    /\ compiler_cfg.balancer_policy = "default"

\* C6: for every batch_size B >= 1 the input submitted to compile+run has
\* batch dimension B: the DenseNet runner submits B copies of the image
\* concatenated along dimension 0, the FLAN-T5 runner B copies of the prompt
\* to a pipeline whose batch_size is B.
C6_BatchDimension ==
    /\ (demo = "xray" /\ batch_size >= 1 /\ pc \in { "x_get", "x_post", "done" })
          => /\ Len(submitted) = 1
             /\ submitted[1].dims = << batch_size, 1, 224, 224 >>
             /\ Len(submitted[1].rows) = batch_size
             /\ \A i \in 1..batch_size : submitted[1].rows[i] = "xray_img"
    /\ (demo = "flan" /\ batch_size >= 1 /\ pc \in { "f_report", "done" })
          => /\ Len(submitted) = batch_size
             /\ \A i \in 1..batch_size : submitted[i] = Prompt
             /\ text2text_generator.batch_size = batch_size

\* C6 witness: the DenseNet runner has submitted a batch of two samples.
C6_Witness ==
    demo = "xray" /\ pc = "x_get" /\ batch_size = 2 /\ Len(submitted) = 1

\* The same for the FLAN-T5 runner.
C6_WitnessFlan ==
    demo = "flan" /\ pc = "f_report" /\ batch_size = 2 /\ Len(submitted) = 2

\* C7: no failure is caught or retried in a runner: a failure of the input
\* fetch, the model load, the submission or the blocking get ends the run, the
\* result is not printed, and the caller sees the failure; an image whose
\* normalized array has rank below 2 is logged and is fatal: the run never
\* reaches compile+run.
C7_FailuresPropagate ==
    /\ [](error # "none" => (pc \in { "failed", "idle" } /\ ~ResultPrinted))
    /\ []((pc = "failed") => error # "none")
    /\ []((img_rank # 0 /\ img_rank < 2) =>
            /\ LowRankLogged
            /\ error = "IndexError"
            /\ calls \cap SubmitCalls = {})
    /\ [][pc = "failed" => (pc' = "idle" /\ outcome' = error /\ error' = error)]_vars

\* C7 witness: a rank-1 image was logged and ended the run.
C7_Witness ==
    /\ img_rank = 1
    /\ pc = "idle"
    /\ outcome = "IndexError"
    /\ LowRankLogged

\* C8: a test's runner call starts only with the accelerator cleared by the
\* clear_pybuda fixture and held by that test alone; at most one test holds
\* the device; it is released and reset when the test exits, whether the
\* runner returned or raised.
C8_FixtureScopesDevice ==
    /\ device_holders <= 1
    /\ (in_test /\ pc # "idle") => device_holders = 1
    /\ (in_test /\ pc \in ConfigurePcs) => accel_state = "clean"
    /\ pc = "idle" => device_holders = 0
    /\ (in_test /\ pc = "idle") => accel_state = "clean"

\* C8 witness: a test whose runner raised after dirtying the device has exited.
C8_Witness ==
    /\ in_test
    /\ pc = "idle"
    /\ outcome = "RuntimeFault"
    /\ "run_inference" \in calls

\* C9: with a non-empty device sequence exactly one preset is applied, chosen
\* by the first device alone: Wormhole_B0 gives balancer_policy "Ribbon" and
\* default_df_override Float16_b and leaves PYBUDA_PAD_SPARSE_MM unwritten; any
\* other first device gives balancer_policy "CNN" and PYBUDA_PAD_SPARSE_MM
\* "{25:32}" and leaves default_df_override unwritten.
C9_PresetByFirstDevice ==
    [][(pc = "x_configure" /\ pc' # pc /\ available_devices' # << >>) =>
          IF available_devices'[1] = "Wormhole_B0"
          THEN /\ compiler_cfg'.balancer_policy = "Ribbon"
               /\ compiler_cfg'.default_df_override = "Float16_b"
               /\ env'["PYBUDA_PAD_SPARSE_MM"] = env["PYBUDA_PAD_SPARSE_MM"]
               /\ { writes'[i] : i \in 5..Len(writes') }
                    = { "balancer_policy", "default_df_override" }
          ELSE /\ compiler_cfg'.balancer_policy = "CNN"
               /\ env'["PYBUDA_PAD_SPARSE_MM"] = "{25:32}"
               /\ compiler_cfg'.default_df_override = compiler_cfg.default_df_override
               /\ { writes'[i] : i \in 5..Len(writes') }
                    = { "balancer_policy", "PYBUDA_PAD_SPARSE_MM" }]_vars

\* C9 witness: two different devices were detected and the first one decided.
C9_Witness ==
    /\ pc = "x_load_input"
    /\ Len(available_devices) = 2
    /\ available_devices[1] = "Wormhole_B0"
    /\ available_devices[2] = "Grayskull"
    /\ compiler_cfg.balancer_policy = "Ribbon"
    /\ env["PYBUDA_PAD_SPARSE_MM"] = Unset

\* C10: post-processing reads output[0] alone.  With PYBUDA_N300_DATA_PARALLEL
\* equal to "1" the first two runtime outputs, output[0] then output[1], are
\* concatenated along the batch dimension into the single tensor of the output
\* list before the mapping is built; otherwise the runtime output list is used
\* as it is.
C10_DataParallelCombine ==
    (demo = "xray" /\ pc = "done") =>
        /\ IF env["PYBUDA_N300_DATA_PARALLEL"] = "1"
           THEN /\ Len(output) = 1
                /\ output[1].rows = runtime_output[1].rows \o runtime_output[2].rows
                /\ output[1].dims = << Len(output[1].rows), NumPathologies >>
           ELSE output = runtime_output
        /\ LET n == Min(NumPathologies, Len(output[1].rows))
           IN  /\ DOMAIN preds = { default_pathologies[i] : i \in 1..n }
               /\ \A i \in 1..n : preds[default_pathologies[i]] = output[1].rows[i]

\* C10 witness: two non-empty halves were combined.
C10_Witness ==
    /\ demo = "xray"
    /\ pc = "done"
    /\ env["PYBUDA_N300_DATA_PARALLEL"] = "1"
    /\ Len(runtime_output) = 2
    /\ Len(runtime_output[1].rows) >= 1
    /\ Len(runtime_output[2].rows) >= 1
====
